---- MODULE Spec2Model ----
(***************************************************************************)
(* Football-Stat-Visualizer: src/football_stat_visualizer.py               *)
(*                                                                         *)
(* Three parts of the program are modelled:                                *)
(*   - the controller (main, lines 323-427) with the visualization state   *)
(*     (DrawInformation) and the two sort generators        : Spec         *)
(*   - DrawInformation.set_list on its own, over larger datasets: GeomSpec *)
(*   - fetch_players_by_goals over a paged API              : FetchSpec    *)
(* An entry (name, goals) is the tuple <<name, goals>>; Python's 0-based   *)
(* lst[k] is l[k + 1] here.                                                *)
(***************************************************************************)
EXTENDS Integers, Sequences, FiniteSets

VARIABLES
    pc,                 \* position of main: "online" / "offline" (the mode
                        \* answered at line 327, data not yet loaded), "top"
                        \* (the while test), "events" (the for loop), or
                        \* where main ended: "no_team", "no_data", "exited",
                        \* "crashed" (an uncaught exception)
    window,             \* TRUE while the pygame window is open
    draw_info,          \* the DrawInformation object: lst and derived geometry
    run,                \* main's loop flag (line 382)
    sorting,            \* main's Sorting flag (line 384)
    ascending,          \* main's sort direction (line 385)
    sorting_algorithm,  \* "bubble_sort" or "insertion_sort" (line 386)
    gen,                \* sorting_algorithm_generator: the suspended step sequence
    event,              \* the event of the for loop at line 401 ("none" outside it)
    probe,              \* instrumentation of the current step sequence (counts only)
    api,                \* fetch: the pages the players endpoint serves
    page,               \* fetch: local page (line 114)
    goal_list,          \* fetch: local goal_list (line 115)
    requests,           \* fetch: page numbers requested so far, in order
    result              \* fetch: the returned list

vars == <<pc, window, draw_info, run, sorting, ascending,
          sorting_algorithm, gen, event, probe, api, page, goal_list,
          requests, result>>

ctlVars == <<window, run, sorting, ascending, sorting_algorithm,
             gen, event, probe>>
fetchVars == <<api, page, goal_list, requests, result>>

-----------------------------------------------------------------------------
(* Bounds and program constants *)

MaxLen == 3          \* longest dataset of the controller model
MaxReloadLen == 2    \* longest dataset a reload returns in the controller model
GeomMaxLen == 8      \* longest dataset of the geometry model
MaxPages == 3        \* most pages the modelled API serves
BigPageLen == 11     \* players on the large API page

WIDTH == 1400
HEIGHT == 1000
SIDE_PAD == 100
TOP_PAD == 150
BOTTOM_PAD == 150
TopN == 20

Min(a, b) == IF a < b THEN a ELSE b
Max(a, b) == IF a > b THEN a ELSE b

\* the entries the data sources of the controller model can return
Entries == {<<"Smith", 3>>, <<"Jones", 10>>, <<"Lee", 1>>}

SeqsUpTo(S, n) == UNION {[1..k -> S] : k \in 1..n}

\* non-empty datasets
Datasets == SeqsUpTo(Entries, MaxLen)

\* what a load (fetch_players_by_goals or load_offline_data) can return at
\* startup, and on a reload (K_r)
Loads == Datasets \cup {<<>>}
Reloads == SeqsUpTo(Entries, MaxReloadLen) \cup {<<>>}

-----------------------------------------------------------------------------
(* DrawInformation.set_list *)

RECURSIVE MinGoals(_)
MinGoals(l) ==
    IF Len(l) = 1 THEN l[1][2] ELSE Min(l[1][2], MinGoals(Tail(l)))

RECURSIVE MaxGoals(_)
MaxGoals(l) ==
    IF Len(l) = 1 THEN l[1][2] ELSE Max(l[1][2], MaxGoals(Tail(l)))

\* Python's round() of the float a / b (a >= 0, b > 0): to nearest, ties to even
PyRound(a, b) ==
    LET q == a \div b
        r == a % b
    IN  IF 2 * r < b THEN q
        ELSE IF 2 * r > b THEN q + 1
        ELSE IF q % 2 = 0 THEN q ELSE q + 1

\* x or 1
OrOne(x) == IF x = 0 THEN 1 ELSE x

\* mutant: the width is floored instead of rounded
BlockWidthFloor(l) == (WIDTH - SIDE_PAD) \div Len(l)

BlockWidth(l) == PyRound(WIDTH - SIDE_PAD, Len(l))

BlockHeight(mn, mx) ==
    (HEIGHT - TOP_PAD - BOTTOM_PAD) \div Max(1, OrOne(mx - mn))

\* min() of an empty sequence raises ValueError, after self.lst = lst
set_list_raises(l) == l = <<>>

set_list(di, l) ==
    IF set_list_raises(l)
    THEN [di EXCEPT !.lst = l]
    ELSE [lst |-> l,
          min_val |-> MinGoals(l),
          max_val |-> MaxGoals(l),
          block_width |-> BlockWidth(l),
          block_height |-> BlockHeight(MinGoals(l), MaxGoals(l)),
          start_x |-> SIDE_PAD \div 2]

\* before DrawInformation is constructed
NoDrawInfo ==
    [lst |-> <<>>, min_val |-> 0, max_val |-> 0, block_width |-> 0,
     block_height |-> 0, start_x |-> 0]

-----------------------------------------------------------------------------
(* bubble_sort and insertion_sort *)

\* mutant: the direction is not consulted
SwapCondNoDirection(num1, num2, asc) == num1 > num2

SwapCond(num1, num2, asc) ==
    (num1 > num2 /\ asc) \/ (num1 < num2 /\ ~asc)

ShiftCond(prev, cur, asc) ==
    (prev > cur /\ asc) \/ (prev < cur /\ ~asc)

\* mutant: the second store of the swap is missing
SwapOneStore(l, a, b) == [l EXCEPT ![a] = l[b]]

Swap(l, a, b) == [l EXCEPT ![a] = l[b], ![b] = l[a]]

\* bubble_sort run from the head of the inner loop at (i, j) up to its next
\* yield or to its end; cmps counts evaluations of the swap condition, outer
\* the outer iterations begun on the way
RECURSIVE BubbleRun(_, _, _, _)
BubbleRun(l, i, j, asc) ==
    IF i >= Len(l) - 1
    THEN [lst |-> l, i |-> i, j |-> j, cmps |-> 0, outer |-> 0, units |-> 0,
          yielded |-> FALSE]
    ELSE IF j >= Len(l) - 1 - i
    THEN LET r == BubbleRun(l, i + 1, 0, asc)
         IN  [r EXCEPT !.outer = @ + (IF i + 1 < Len(l) - 1 THEN 1 ELSE 0)]
    ELSE IF SwapCond(l[j + 1][2], l[j + 2][2], asc)
    THEN [lst |-> Swap(l, j + 1, j + 2), i |-> i, j |-> j, cmps |-> 1,
          outer |-> 0, units |-> 1, yielded |-> TRUE]
    ELSE LET r == BubbleRun(l, i, j + 1, asc)
         IN  [r EXCEPT !.cmps = @ + 1]

\* the first next(): the outer loop is entered at i = 0
BubbleStart(l, asc) ==
    LET r == BubbleRun(l, 0, 0, asc)
    IN  [r EXCEPT !.outer = @ + (IF 0 < Len(l) - 1 THEN 1 ELSE 0)]

\* mutant: after a yield the same pair is compared once more
BubbleResumeSamePair(l, i, j, asc) == BubbleRun(l, i, j, asc)

\* a later next(): execution continues after the yield, at j + 1
BubbleResume(l, i, j, asc) == BubbleRun(l, i, j + 1, asc)

\* mutant: current is not stored after the shifts
RECURSIVE ShiftNoStore(_, _, _, _)
ShiftNoStore(l, j, current, asc) ==
    IF j > 0 /\ ShiftCond(l[j][2], current[2], asc)
    THEN ShiftNoStore([l EXCEPT ![j + 1] = l[j]], j - 1, current, asc)
    ELSE l

\* the while loop of insertion_sort and the store of current
RECURSIVE Shift(_, _, _, _)
Shift(l, j, current, asc) ==
    IF j > 0 /\ ShiftCond(l[j][2], current[2], asc)
    THEN Shift([l EXCEPT ![j + 1] = l[j]], j - 1, current, asc)
    ELSE [l EXCEPT ![j + 1] = current]

\* insertion_sort from the head of the outer loop at i
InsertionRun(l, i, asc) ==
    IF i >= Len(l)
    THEN [lst |-> l, i |-> i, j |-> 0, cmps |-> 0, outer |-> 0, units |-> 0,
          yielded |-> FALSE]
    ELSE [lst |-> Shift(l, i, l[i + 1], asc), i |-> i, j |-> 0, cmps |-> 0,
          outer |-> 1, units |-> 1, yielded |-> TRUE]

NoGen ==
    [pc |-> "none", algo |-> "none", asc |-> TRUE, lst |-> "unbound",
     i |-> 0, j |-> 0]

\* sorting_algorithm(draw_info, ascending): the generator object, body not yet run
NewGen(algo, asc) ==
    [pc |-> "created", algo |-> algo, asc |-> asc, lst |-> "unbound",
     i |-> 0, j |-> 0]

\* one next() on a generator whose list is draw_info.lst (or not yet bound)
GenNext(g, l) ==
    IF g.pc = "finished"
    THEN [lst |-> l, i |-> g.i, j |-> g.j, cmps |-> 0, outer |-> 0,
          units |-> 0, yielded |-> FALSE]
    ELSE IF g.algo = "bubble_sort"
    THEN IF g.pc = "created" THEN BubbleStart(l, g.asc)
         ELSE BubbleResume(l, g.i, g.j, g.asc)
    ELSE IF g.pc = "created" THEN InsertionRun(l, 1, g.asc)
         ELSE InsertionRun(l, g.i + 1, g.asc)

\* draw_info.lst has been replaced.  A generator that had bound the old list
\* keeps it; of such a generator the model keeps only whether it is suspended or
\* finished.  A generator whose body has not run yet binds draw_info.lst at its
\* first next() and is left as it is.
Detach(g) ==
    IF g.lst = "unbound"
    THEN g
    ELSE [pc |-> g.pc, algo |-> "none", asc |-> TRUE, lst |-> "old",
          i |-> 0, j |-> 0]

NoProbe ==
    [start |-> <<>>, cmps |-> 0, units |-> 0, yields |-> 0, outer |-> 0,
     resumes |-> 0, work |-> 0]

-----------------------------------------------------------------------------
(* main: startup *)

FetchIdle ==
    /\ api = <<>>
    /\ page = 0
    /\ goal_list = <<>>
    /\ requests = <<>>
    /\ result = <<>>

\* the mode is chosen; both loaders are a choice among Loads, so the mode is
\* not kept once the data is loaded
Init ==
    /\ pc \in {"online", "offline"}
    /\ window = FALSE
    /\ draw_info = NoDrawInfo
    /\ run = FALSE
    /\ sorting = FALSE
    /\ ascending = TRUE
    /\ sorting_algorithm = "bubble_sort"
    /\ gen = NoGen
    /\ event = "none"
    /\ probe = NoProbe
    /\ FetchIdle

\* search_team found nothing: "No matching team found.", return
NoTeam ==
    /\ pc = "online"
    /\ pc' = "no_team"
    /\ UNCHANGED <<draw_info, ctlVars, fetchVars>>

\* raw_data is loaded; empty: "No data to visualize.", return; otherwise the
\* window is opened and the loop's variables are set
Startup(raw_data) ==
    /\ pc \in {"online", "offline"}
    /\ IF raw_data = <<>>
       THEN /\ pc' = "no_data"
            /\ UNCHANGED <<draw_info, window, run>>
       ELSE /\ pc' = "top"
            /\ window' = TRUE
            /\ draw_info' = set_list(NoDrawInfo, raw_data)
            /\ run' = TRUE
    /\ UNCHANGED <<sorting, ascending, sorting_algorithm, gen,
                   event, probe, fetchVars>>

-----------------------------------------------------------------------------
(* main: the pygame loop *)

\* what next(sorting_algorithm_generator) can do.  A generator suspended on a
\* list that is no longer draw_info.lst works on that old list: draw_info.lst
\* is untouched and either outcome (yield, StopIteration) is possible.
NextOutcomes ==
    IF gen.lst = "old" /\ gen.pc = "suspended"
    THEN {[lst |-> draw_info.lst, i |-> 0, j |-> 0, cmps |-> 0, outer |-> 0,
           units |-> 0, yielded |-> y] : y \in BOOLEAN}
    ELSE {GenNext(gen, draw_info.lst)}

\* mutant: Sorting is left after every next()
SortingAfterAlwaysIdle(r) == FALSE

\* lines 394-397: sorting stays True unless next() raised StopIteration
SortingAfter(r) == r.yielded

\* lines 391-399: clock.tick, then one next() when sorting, else a full draw
Tick ==
    /\ pc = "top"
    /\ run
    /\ IF ~sorting
       THEN /\ pc' = "events"
            /\ UNCHANGED <<draw_info, sorting, gen, probe>>
       ELSE IF gen.pc = "none"
       THEN /\ pc' = "crashed"
            /\ UNCHANGED <<draw_info, sorting, gen, probe>>
       ELSE \E r \in NextOutcomes :
            /\ pc' = "events"
            /\ draw_info' = [draw_info EXCEPT !.lst = r.lst]
            /\ gen' = [gen EXCEPT
                          !.pc = IF r.yielded THEN "suspended" ELSE "finished",
                          !.lst = IF @ = "unbound" THEN "draw_info" ELSE @,
                          !.i = r.i,
                          !.j = r.j]
            /\ sorting' = SortingAfter(r)
            /\ probe' = [probe EXCEPT
                            !.cmps = @ + r.cmps,
                            !.units = @ + r.units,
                            !.outer = @ + r.outer,
                            !.yields = @ + (IF r.yielded THEN 1 ELSE 0),
                            !.resumes = @ + 1,
                            !.work = r.units]
    /\ UNCHANGED <<window, run, ascending, sorting_algorithm, event,
                   fetchVars>>

\* pygame.QUIT
Quit ==
    /\ pc = "events"
    /\ event' = "quit"
    /\ run' = FALSE
    /\ UNCHANGED <<pc, window, draw_info, sorting, ascending,
                   sorting_algorithm, gen, probe, fetchVars>>

\* an event that is no KEYDOWN, or a key with no binding
OtherEvent ==
    /\ pc = "events"
    /\ event' = "other"
    /\ UNCHANGED <<pc, window, draw_info, run, sorting, ascending,
                   sorting_algorithm, gen, probe, fetchVars>>

\* K_r: the data is loaded again, then set_list, then sorting = False
KeyR(raw_data) ==
    /\ pc = "events"
    /\ event' = "r"
    /\ draw_info' = set_list(draw_info, raw_data)
    /\ gen' = Detach(gen)
    /\ probe' = NoProbe
    /\ IF set_list_raises(raw_data)
       THEN /\ pc' = "crashed"
            /\ UNCHANGED sorting
       ELSE /\ pc' = "events"
            /\ sorting' = FALSE
    /\ UNCHANGED <<window, run, ascending, sorting_algorithm,
                   fetchVars>>

\* K_SPACE and not sorting
KeySpace ==
    /\ pc = "events"
    /\ event' = "space"
    /\ IF ~sorting
       THEN /\ sorting' = TRUE
            /\ gen' = NewGen(sorting_algorithm, ascending)
            /\ probe' = [NoProbe EXCEPT !.start = draw_info.lst]
       ELSE UNCHANGED <<sorting, gen, probe>>
    /\ UNCHANGED <<pc, window, draw_info, run, ascending,
                   sorting_algorithm, fetchVars>>

\* K_a and not sorting
KeyA ==
    /\ pc = "events"
    /\ event' = "a"
    /\ ascending' = IF ~sorting THEN TRUE ELSE ascending
    /\ UNCHANGED <<pc, window, draw_info, run, sorting,
                   sorting_algorithm, gen, probe, fetchVars>>

\* mutant: K_d without "and not sorting"
KeyDUnguarded ==
    /\ pc = "events"
    /\ event' = "d"
    /\ ascending' = FALSE
    /\ UNCHANGED <<pc, window, draw_info, run, sorting,
                   sorting_algorithm, gen, probe, fetchVars>>

\* K_d and not sorting
KeyD ==
    /\ pc = "events"
    /\ event' = "d"
    /\ ascending' = IF ~sorting THEN FALSE ELSE ascending
    /\ UNCHANGED <<pc, window, draw_info, run, sorting,
                   sorting_algorithm, gen, probe, fetchVars>>

\* K_i and not sorting
KeyI ==
    /\ pc = "events"
    /\ event' = "i"
    /\ sorting_algorithm' =
           IF ~sorting THEN "insertion_sort" ELSE sorting_algorithm
    /\ UNCHANGED <<pc, window, draw_info, run, sorting, ascending,
                   gen, probe, fetchVars>>

\* K_b and not sorting
KeyB ==
    /\ pc = "events"
    /\ event' = "b"
    /\ sorting_algorithm' =
           IF ~sorting THEN "bubble_sort" ELSE sorting_algorithm
    /\ UNCHANGED <<pc, window, draw_info, run, sorting, ascending,
                   gen, probe, fetchVars>>

\* pygame.event.get() is exhausted: back to the while test
EndFrame ==
    /\ pc = "events"
    /\ pc' = "top"
    /\ event' = "none"
    /\ UNCHANGED <<window, draw_info, run, sorting, ascending,
                   sorting_algorithm, gen, probe, fetchVars>>

\* run is False at the while test: pygame.quit()
ExitLoop ==
    /\ pc = "top"
    /\ ~run
    /\ pc' = "exited"
    /\ window' = FALSE
    /\ UNCHANGED <<draw_info, run, sorting, ascending,
                   sorting_algorithm, gen, event, probe, fetchVars>>

Next ==
    \/ NoTeam
    \/ \E d \in Loads : Startup(d)
    \/ Tick
    \/ Quit
    \/ OtherEvent
    \/ \E d \in Reloads : KeyR(d)
    \/ KeySpace
    \/ KeyA
    \/ KeyD
    \/ KeyI
    \/ KeyB
    \/ EndFrame
    \/ ExitLoop

Spec == Init /\ [][Next]_vars

\* the while loop runs on unconditionally and every event batch is finite
LiveSpec == Spec /\ WF_vars(Tick) /\ WF_vars(EndFrame)

-----------------------------------------------------------------------------
(* DrawInformation.set_list on its own: GeomSpec *)

\* main's variables where main is not running
CtlIdle ==
    /\ window = FALSE
    /\ run = FALSE
    /\ sorting = FALSE
    /\ ascending = TRUE
    /\ sorting_algorithm = "bubble_sort"
    /\ gen = NoGen
    /\ event = "none"
    /\ probe = NoProbe

GeomEntries == {<<"P", 1>>, <<"P", 2>>, <<"P", 4>>}

GeomDatasets == SeqsUpTo(GeomEntries, GeomMaxLen)

\* a DrawInformation of the fixed window size that holds a dataset and no
\* geometry yet
GeomInit ==
    /\ pc = "geom_0"
    /\ draw_info \in {[NoDrawInfo EXCEPT !.lst = d] : d \in GeomDatasets}
    /\ CtlIdle
    /\ FetchIdle

\* set_list(lst), called a first and a second time on the same dataset
GeomSetList ==
    /\ pc \in {"geom_0", "geom_1"}
    /\ pc' = IF pc = "geom_0" THEN "geom_1" ELSE "geom_2"
    /\ draw_info' = set_list(draw_info, draw_info.lst)
    /\ UNCHANGED <<ctlVars, fetchVars>>

GeomNext == GeomSetList

GeomSpec == GeomInit /\ [][GeomNext]_vars

-----------------------------------------------------------------------------
(* fetch_players_by_goals: FetchSpec *)

\* A JSON number-or-null is a set: {} for null, {n} for the number n.
\* x or 0
OrZero(x) == IF x = {} THEN 0 ELSE CHOOSE n \in x : TRUE

\* sum(stats["goals"]["total"] or 0 for stats in player["statistics"])
RECURSIVE total_goals(_)
total_goals(statistics) ==
    IF statistics = <<>> THEN 0
    ELSE OrZero(Head(statistics).goals) + total_goals(Tail(statistics))

\* sum(stats["games"]["appearences"] or 0 for stats in player["statistics"])
RECURSIVE total_appearances(_)
total_appearances(statistics) ==
    IF statistics = <<>> THEN 0
    ELSE OrZero(Head(statistics).appearences)
             + total_appearances(Tail(statistics))

\* mutant: appearances are not required
IncludedGoalsOnly(player) == total_goals(player.statistics) > 0

\* line 149
Included(player) ==
    total_goals(player.statistics) > 0
        /\ total_appearances(player.statistics) > 0

\* the for loop over one page's players, appending to gl
RECURSIVE AppendPlayers(_, _)
AppendPlayers(gl, players) ==
    IF players = <<>> THEN gl
    ELSE AppendPlayers(
             IF Included(Head(players))
             THEN Append(gl, <<Head(players).name,
                               total_goals(Head(players).statistics)>>)
             ELSE gl,
             Tail(players))

\* goal_list[:20]
Truncate(gl) == SubSeq(gl, 1, Min(TopN, Len(gl)))

\* the players the modelled API knows
PlayerA ==
    [name |-> "A",
     statistics |-> <<[goals |-> {2}, appearences |-> {5}],
                      [goals |-> {1}, appearences |-> {3}]>>]
PlayerB ==
    [name |-> "B", statistics |-> <<[goals |-> {}, appearences |-> {4}]>>]
PlayerC ==
    [name |-> "C",
     statistics |-> <<[goals |-> {1}, appearences |-> {}],
                      [goals |-> {}, appearences |-> {}]>>]
PlayerD ==
    [name |-> "D",
     statistics |-> <<[goals |-> {1}, appearences |-> {2}],
                      [goals |-> {}, appearences |-> {}]>>]
PlayerE == [name |-> "E", statistics |-> <<>>]

BigNames ==
    <<"N01", "N02", "N03", "N04", "N05", "N06", "N07", "N08", "N09", "N10",
      "N11", "N12", "N13", "N14">>

\* a page of BigPageLen players who all scored
BigPlayers ==
    [k \in 1..BigPageLen |->
        [name |-> BigNames[k],
         statistics |-> <<[goals |-> {k}, appearences |-> {k + 1}]>>]]

\* the responses the players endpoint can give for one page
Pages ==
    {[status |-> 500, response |-> <<>>],
     [status |-> 200, response |-> <<>>],
     [status |-> 200, response |-> <<PlayerA, PlayerB>>],
     [status |-> 200, response |-> <<PlayerC, PlayerD, PlayerE>>],
     [status |-> 200, response |-> <<PlayerD>>],
     [status |-> 200, response |-> BigPlayers]}

Apis == {<<>>} \cup SeqsUpTo(Pages, MaxPages)

\* past the last page the endpoint answers 200 with an empty response
PageAt(a, p) ==
    IF p <= Len(a) THEN a[p] ELSE [status |-> 200, response |-> <<>>]

FetchInit ==
    /\ pc = "fetch"
    /\ api \in Apis
    /\ page = 1
    /\ goal_list = <<>>
    /\ requests = <<>>
    /\ result = <<>>
    /\ draw_info = NoDrawInfo
    /\ CtlIdle

\* one iteration of the while loop (lines 118-153); a break goes on to the
\* return at line 159
FetchPage ==
    /\ pc = "fetch"
    /\ requests' = Append(requests, page)
    /\ LET response == PageAt(api, page)
       IN  IF response.status # 200 \/ response.response = <<>>
           THEN /\ pc' = "fetch_done"
                /\ result' = Truncate(goal_list)
                /\ UNCHANGED <<page, goal_list>>
           ELSE /\ goal_list' = AppendPlayers(goal_list, response.response)
                /\ page' = page + 1
                /\ UNCHANGED <<pc, result>>
    /\ UNCHANGED <<api, draw_info, ctlVars>>

FetchNext == FetchPage

FetchSpec == FetchInit /\ [][FetchNext]_vars

-----------------------------------------------------------------------------
(* Properties *)

Goal(l, k) == l[k][2]

\* non-decreasing (asc) or non-increasing goal counts
Ordered(l, asc) ==
    \A k \in 1..(Len(l) - 1) :
        IF asc THEN Goal(l, k) <= Goal(l, k + 1)
        ELSE Goal(l, k) >= Goal(l, k + 1)

Count(e, l) == Cardinality({k \in DOMAIN l : l[k] = e})

IsPermutation(a, b) ==
    /\ Len(a) = Len(b)
    /\ \A e \in Entries : Count(e, a) = Count(e, b)

\* the step sequence works on the list draw_info holds
Bound == gen.lst = "draw_info"

\* control is in the pygame loop
InLoop == pc \in {"top", "events"}

Exhausted == InLoop /\ Bound /\ gen.pc = "finished"

\* C1: once the step sequence is exhausted, draw_info.lst (n >= 2) is
\* non-decreasing by goals for ascending=True and non-increasing for
\* ascending=False, for bubble_sort and for insertion_sort.
C1_SortedAtExhaustion ==
    (Exhausted /\ Len(draw_info.lst) >= 2)
        => Ordered(draw_info.lst, gen.asc)

C1_Witness ==
    /\ Exhausted
    /\ gen.algo = "insertion_sort"
    /\ ~gen.asc
    /\ Len(draw_info.lst) = 3
    /\ draw_info.lst # probe.start
    /\ probe.start = <<<<"Lee", 1>>, <<"Smith", 3>>, <<"Jones", 10>>>>

IgnoredKeys == {"space", "a", "d", "i", "b"}

\* C2: while Sorting, the key events start, ascending, descending,
\* select-insertion and select-bubble leave the direction, the selected
\* algorithm, the step sequence and the Sorting flag unchanged; no event other
\* than reload and quit changes anything of the controller.
C2_KeysIgnoredWhileSorting ==
    [][(pc = "events" /\ sorting) =>
          /\ event' \in IgnoredKeys =>
                 UNCHANGED <<ascending, sorting_algorithm, gen, sorting>>
          /\ event' \notin {"r", "quit"} =>
                 UNCHANGED <<ascending, sorting_algorithm, gen, sorting, run,
                             draw_info, window>>]_vars

C2_Witness ==
    /\ pc = "events"
    /\ sorting
    /\ gen.pc = "suspended"
    /\ event = "d"
    /\ ascending
    /\ sorting_algorithm = "bubble_sort"

\* the geometry of draw_info is the one derived from the list it holds
GeometryRebuilt ==
    /\ draw_info.lst # <<>>
    /\ draw_info.min_val = MinGoals(draw_info.lst)
    /\ draw_info.max_val = MaxGoals(draw_info.lst)
    /\ draw_info.block_width = BlockWidth(draw_info.lst)
    /\ draw_info.block_height =
           BlockHeight(draw_info.min_val, draw_info.max_val)

\* C3: a reload handled in any controller state leaves the controller Idle
\* with the visualization state rebuilt from the loaded dataset, and the step
\* sequence that was in progress is not the one that works on the new list.
C3_ReloadLeavesIdle ==
    event = "r" =>
        /\ pc = "events"
        /\ ~sorting
        /\ ~Bound
        /\ GeometryRebuilt

\* a step sequence detached by a reload is never resumed (the part of C3 that
\* holds of the code whatever the load returns)
NoStaleResume == [][(pc = "top" /\ sorting) => gen.lst # "old"]_vars

\* C4: whenever the window is open, the dataset of the visualization state
\* has at least one entry.
C4_DatasetNonEmpty == window => Len(draw_info.lst) >= 1

\* C5: a complete bubble_sort run evaluates its swap condition exactly
\* n*(n-1)/2 times; a complete insertion_sort run performs exactly n-1 outer
\* iterations and yields exactly n-1 times.
C5_StepCounts ==
    Exhausted =>
        LET n == Len(draw_info.lst)
        IN  /\ gen.algo = "bubble_sort" => 2 * probe.cmps = n * (n - 1)
            /\ gen.algo = "insertion_sort" =>
                   probe.outer = n - 1 /\ probe.yields = n - 1

\* three comparisons, none of which swapped
C5_Witness ==
    /\ Exhausted
    /\ gen.algo = "bubble_sort"
    /\ Len(draw_info.lst) = 3
    /\ probe.cmps = 3
    /\ probe.units = 0

C5_WitnessInsertion ==
    /\ Exhausted
    /\ gen.algo = "insertion_sort"
    /\ Len(draw_info.lst) = 3
    /\ probe.yields = 2
    /\ draw_info.lst # probe.start

Abs(x) == IF x < 0 THEN -x ELSE x

\* w is a / n rounded to the nearest integer, a tie going to the even one
IsRounded(a, n, w) ==
    /\ 2 * Abs(a - w * n) <= n
    /\ 2 * Abs(a - w * n) = n => w % 2 = 0

\* w is floor(a / n)
IsFloor(a, n, w) == w * n <= a /\ a < (w + 1) * n

GeomDone == pc \in {"geom_1", "geom_2"}

GeomCommon ==
    LET l == draw_info.lst
        range == draw_info.max_val - draw_info.min_val
    IN  /\ \A k \in DOMAIN l : draw_info.min_val <= Goal(l, k)
        /\ \E k \in DOMAIN l : draw_info.min_val = Goal(l, k)
        /\ \A k \in DOMAIN l : draw_info.max_val >= Goal(l, k)
        /\ \E k \in DOMAIN l : draw_info.max_val = Goal(l, k)
        /\ IsFloor(HEIGHT - TOP_PAD - BOTTOM_PAD,
                   IF range = 0 THEN 1 ELSE range,
                   draw_info.block_height)
        /\ 2 * draw_info.start_x = SIDE_PAD

\* C6 (as amended): after set_list on a non-empty dataset, once or twice,
\* bar_width is (width - side_padding) / count rounded to the nearest integer
\* (ties to even), bar_height_scale is floor((height - top - bottom) /
\* max(1, max - min)) and start_x is side_padding / 2.
C6_Geometry ==
    GeomDone =>
        /\ IsRounded(WIDTH - SIDE_PAD, Len(draw_info.lst),
                     draw_info.block_width)
        /\ GeomCommon

\* C6 as stated: bar_width = floor((width - side_padding) / count)
C6_Original ==
    GeomDone =>
        /\ IsFloor(WIDTH - SIDE_PAD, Len(draw_info.lst),
                   draw_info.block_width)
        /\ GeomCommon

\* a zero range, and a width that is rounded up
C6_Witness ==
    /\ pc = "geom_2"
    /\ draw_info.max_val = draw_info.min_val
    /\ draw_info.block_width * Len(draw_info.lst) > WIDTH - SIDE_PAD

IsStop(response) == response.status # 200 \/ Len(response.response) = 0

\* the first page that is empty or not a success
StopPage(a) ==
    CHOOSE p \in 1..(Len(a) + 1) :
        /\ IsStop(PageAt(a, p))
        /\ \A q \in 1..(p - 1) : ~IsStop(PageAt(a, q))

RECURSIVE PlayersBefore(_, _)
PlayersBefore(a, p) ==
    IF p <= 1 THEN <<>> ELSE PlayersBefore(a, p - 1) \o a[p - 1].response

RECURSIVE SumOver(_, _, _)
SumOver(statistics, k, field) ==
    IF k = 0 THEN 0
    ELSE (IF statistics[k][field] = {} THEN 0
          ELSE CHOOSE n \in statistics[k][field] : TRUE)
             + SumOver(statistics, k - 1, field)

GoalsOf(player) ==
    SumOver(player.statistics, Len(player.statistics), "goals")
AppearancesOf(player) ==
    SumOver(player.statistics, Len(player.statistics), "appearences")

Qualifies(player) == GoalsOf(player) > 0 /\ AppearancesOf(player) > 0

Expected(a) ==
    LET q == SelectSeq(PlayersBefore(a, StopPage(a)), Qualifies)
    IN  [k \in 1..Min(TopN, Len(q)) |-> <<q[k].name, GoalsOf(q[k])>>]

InsertAt(l, from, to) ==
    [k \in 1..Len(l) |->
        IF k < to \/ k > from THEN l[k]
        ELSE IF k = to THEN l[from] ELSE l[k - 1]]

OneSwap ==
    /\ draw_info'.lst # draw_info.lst
    /\ \E k \in 1..(Len(draw_info.lst) - 1) :
           draw_info'.lst = Swap(draw_info.lst, k, k + 1)

OneInsertion ==
    \E from \in 1..Len(draw_info.lst) : \E to \in 1..from :
        draw_info'.lst = InsertAt(draw_info.lst, from, to)

OneUnit ==
    /\ probe'.work = 1
    /\ gen'.algo = "bubble_sort" => OneSwap
    /\ gen'.algo = "insertion_sort" => OneInsertion

Example == <<<<"Smith", 3>>, <<"Jones", 10>>, <<"Lee", 1>>>>
ExampleSorted == <<<<"Lee", 1>>, <<"Smith", 3>>, <<"Jones", 10>>>>

ExampleRun ==
    /\ Bound
    /\ gen.pc = "finished"
    /\ gen.algo = "bubble_sort"
    /\ gen.asc
    /\ probe.start = Example

\* a next() made by the controller on a Sorting tick
ResumeStep == pc = "top" /\ sorting /\ pc' = "events"

\* C8 (as amended): every next() that returns a step has performed exactly
\* one swap of two adjacent entries (bubble) or exactly one completed
\* insertion (insertion); the last next(), which ends the sequence, performs
\* none.  The ascending bubble run on [(Smith,3),(Jones,10),(Lee,1)] performs
\* exactly 2 swaps and ends as [(Lee,1),(Smith,3),(Jones,10)].
C8_OneUnitPerYield ==
    [][/\ ResumeStep =>
              IF gen'.pc = "suspended" THEN OneUnit
              ELSE probe'.work = 0 /\ draw_info'.lst = draw_info.lst
       /\ ExampleRun' =>
              probe'.units = 2 /\ draw_info'.lst = ExampleSorted]_vars

\* C8 as stated: every next() performs exactly one unit of visible work
C8_Original ==
    [][/\ ResumeStep => OneUnit
       /\ ExampleRun' =>
              probe'.units = 2 /\ draw_info'.lst = ExampleSorted]_vars

C8_Witness ==
    /\ InLoop
    /\ ExampleRun
    /\ probe.units = 2
    /\ probe.resumes = 3
    /\ probe.work = 0

\* C9: once Sorting, and with no reload or quit, the controller resumes the
\* step sequence once per tick and is eventually Idle again; Sorting is left
\* only when the step sequence is exhausted (or by a reload).
C9_SortingEnds ==
    /\ (InLoop /\ sorting) ~> (~sorting \/ ~run \/ ~InLoop)
    /\ [][/\ (sorting /\ ~sorting') => (event' = "r" \/ gen'.pc = "finished")
          /\ ResumeStep => probe'.resumes = probe.resumes + 1]_vars

C9_Witness ==
    /\ InLoop
    /\ ~sorting
    /\ run
    /\ Bound
    /\ gen.pc = "finished"
    /\ probe.resumes = 4
    /\ event = "none"

\* C10: whenever control is with the controller (before the first resume,
\* after each yield, after exhaustion) the dataset is a permutation of the
\* dataset as it was when the step sequence was instantiated.
C10_Permutation ==
    (InLoop /\ (sorting \/ Bound))
        => IsPermutation(draw_info.lst, probe.start)

\* an insertion that shifted two entries
C10_Witness ==
    /\ InLoop
    /\ Bound
    /\ gen.pc = "suspended"
    /\ gen.algo = "insertion_sort"
    /\ probe.start = <<<<"Smith", 3>>, <<"Jones", 10>>, <<"Lee", 1>>>>
    /\ draw_info.lst = <<<<"Lee", 1>>, <<"Smith", 3>>, <<"Jones", 10>>>>

====
